---- MODULE Spec2Model ----
(***************************************************************************)
(* Study planner backend: the planning pipeline of                         *)
(* app/services/study_planner.py (StudyPlannerService), the importance     *)
(* scores of app/services/nlp_service.py (calculate_importance_scores) and *)
(* the POST /generate handler of app/api/schedule.py.                      *)
(*                                                                         *)
(* Number representation.  The code computes with Python floats and rounds *)
(* with round(x, 2) / round(x, 3).  The model keeps every rounded quantity *)
(* as a scaled integer and every unrounded quotient as an exact fraction:  *)
(*   hours        in hundredths of an hour   (round(x, 2))                 *)
(*   importance   in thousandths             (round(x, 3))                 *)
(*   minutes      as a fraction [n, d]       (never rounded by the code)   *)
(* round() is round-half-to-even on the exact quotient, int() truncates.   *)
(* A float can differ from the exact value only where the exact value is a *)
(* rounding tie or a whole number (0.495 rounds to 0.49, 2.05 * 60 is      *)
(* 122.99...); on the input sets of this module the exact values and the   *)
(* floats of the code round and truncate alike.                            *)
(*                                                                         *)
(* A Python dict is an insertion-ordered map: it is modelled as a sequence *)
(* of records [name, v] with distinct names, in insertion order.           *)
(* A question text is a pair <<stem, rest>>: stem stands for its first 100 *)
(* characters, rest (0 = nothing) for the characters after them.           *)
(***************************************************************************)
EXTENDS Integers, Sequences, FiniteSets, TLC

VARIABLES
    pc,                 \* position of the call being served
    topics,             \* argument: topic name -> list of question texts
    importance_scores,  \* argument: question text -> importance (thousandths)
    available_hours,    \* argument: total hours (hundredths)
    study_duration,     \* argument: minutes per session
    topic_importance,   \* _calculate_topic_importance result (thousandths)
    topic_hours,        \* _allocate_time_to_topics result (hundredths)
    sorted_topics,      \* _create_study_sessions: topics by hours, descending
    topic_pos,          \* _create_study_sessions: topics of sorted_topics done
    sessions,           \* _create_study_sessions: the list being built
    session_number,     \* _create_study_sessions: next sequence number
    current_day,        \* _create_study_sessions: day being filled
    daily_study_time,   \* _create_study_sessions: minutes on current_day
    response,           \* <<>>, then <<StudyScheduleResponse>> once returned
    questions,          \* predict_important_questions argument
    top_n,              \* predict_important_questions argument
    predicted,          \* predict_important_questions result
    years,              \* calculate_importance_scores argument
    similar_groups,     \* calculate_importance_scores: similar question groups
    nlp_scores,         \* calculate_importance_scores: scores (thousandths)
    request,            \* POST /generate: the StudyScheduleRequest body
    question_db,        \* memory_db.questions
    schedules,          \* memory_db.schedules
    next_id,            \* memory_db._next_id
    http_status,        \* POST /generate: status of the reply, 0 before it
    calls,              \* frames of generate_schedule calls running together
    num_topics,         \* classify_questions argument
    ml_state,           \* classify_questions: the sentence model and its clustering
    keywords,           \* keywords found in each question text
    labels,             \* classify_questions: cluster label of each question
    active_timers,      \* StudyTimerService.active_timers
    timer_configs,      \* StudyTimerService.timer_configs
    timer_call,         \* the timer call served last
    timer_reply         \* what the timer call served last returned

vars == <<pc, topics, importance_scores, available_hours, study_duration,
          topic_importance, topic_hours, sorted_topics, topic_pos, sessions,
          session_number, current_day, daily_study_time, response,
          questions, top_n, predicted,
          years, similar_groups, nlp_scores,
          request, question_db, schedules, next_id, http_status, calls,
          num_topics, ml_state, keywords, labels,
          active_timers, timer_configs, timer_call, timer_reply>>

\* The state of one planner call served alone
planner_vars ==
    <<pc, topics, importance_scores, available_hours, study_duration,
      topic_importance, topic_hours, sorted_topics, topic_pos, sessions,
      session_number, current_day, daily_study_time, response,
      questions, top_n, predicted>>

\* The state outside the planner service
nlp_vars == <<years, similar_groups, nlp_scores>>

api_vars == <<request, question_db, schedules, next_id, http_status>>

classify_vars == <<num_topics, ml_state, keywords, labels>>

timer_vars == <<active_timers, timer_configs, timer_call, timer_reply>>

\* The state of the services that the planner and its handler never touch
other_vars == <<classify_vars, timer_vars>>

---------------------------------------------------------------------------
(* Bounds of the model *)

\* topics in a generate_schedule call
MaxTopics == 2

\* topics in a direct _allocate_time_to_topics call
MaxAllocTopics == 3

\* largest top_n of a predict_important_questions call
MaxTopN == 3

\* questions of a topic in a direct _calculate_topic_importance call
MaxTopicQuestions == 12

\* largest current_session a timer is taken to
MaxSession == 2

(* Program constants *)

\* min_hours = 0.5, in hundredths of an hour
min_hours == 50

\* max_daily_time = 4 * 60 minutes
max_daily_time == 240

\* current_year of the recency score
current_year == 2025

\* Timer defaults of the settings (minutes, minutes, minutes, sessions)
DEFAULT_STUDY_DURATION == 25

DEFAULT_BREAK_DURATION == 5

DEFAULT_LONG_BREAK_DURATION == 15

POMODOROS_UNTIL_LONG_BREAK == 4

\* the validator of available_hours rejects v > 1000 (hundredths of an hour)
max_available_hours == 100000

---------------------------------------------------------------------------
(* Arithmetic helpers *)

Min(a, b) == IF a < b THEN a ELSE b

Max(a, b) == IF a > b THEN a ELSE b

RECURSIVE Gcd(_, _)
Gcd(a, b) == IF b = 0 THEN a ELSE Gcd(b, a % b)

\* round(n / d) for n >= 0, d > 0: nearest integer, ties to the even one.
RoundHalfEven(n, d) ==
    LET q == n \div d
        r == n % d
    IN  IF 2 * r < d THEN q
        ELSE IF 2 * r > d THEN q + 1
        ELSE IF q % 2 = 0 THEN q ELSE q + 1

\* int(n / d) for d > 0: truncation toward zero.
TruncDiv(n, d) == IF n >= 0 THEN n \div d ELSE -((-n) \div d)

\* Exact fractions [n, d] with d > 0, kept in lowest terms.
Frac(n, d) ==
    LET g == Gcd(IF n < 0 THEN -n ELSE n, d)
    IN  IF n = 0 THEN [n |-> 0, d |-> 1] ELSE [n |-> n \div g, d |-> d \div g]

FracAdd(a, b) == Frac(a.n * b.d + b.n * a.d, a.d * b.d)

FracGt(a, k) == a.n > k * a.d

RECURSIVE SumV(_)
SumV(d) == IF d = <<>> THEN 0 ELSE Head(d).v + SumV(Tail(d))

RECURSIVE SumSeq(_)
SumSeq(s) == IF s = <<>> THEN 0 ELSE Head(s) + SumSeq(Tail(s))

Names(d) == {d[i].name : i \in DOMAIN d}

\* dict[name]
Lookup(d, name) == d[CHOOSE i \in DOMAIN d : d[i].name = name].v

\* dict.get(key, default) on a function used as a dict
Get(f, key, default) == IF key \in DOMAIN f THEN f[key] ELSE default

---------------------------------------------------------------------------
(* StudyPlannerService._allocate_time_to_topics *)

\* Mutation of EqualSplit: the share is truncated instead of rounded.
EqualSplitTruncated(imp, total_hours) ==
    [i \in DOMAIN imp |->
        [name |-> imp[i].name, v |-> total_hours \div Len(imp)]]

\* Equal distribution when every topic has importance 0.
EqualSplit(imp, total_hours) ==
    [i \in DOMAIN imp |->
        [name |-> imp[i].name, v |-> RoundHalfEven(total_hours, Len(imp))]]

\* Mutation of Proportional: a topic gets the share of the other topics'
\* importance.
ProportionalToRest(imp, total_hours) ==
    [i \in DOMAIN imp |->
        [name |-> imp[i].name,
         v |-> RoundHalfEven((SumV(imp) - imp[i].v) * total_hours, SumV(imp))]]

\* Proportional allocation, rounded to 2 decimals.
Proportional(imp, total_hours) ==
    [i \in DOMAIN imp |->
        [name |-> imp[i].name,
         v |-> RoundHalfEven(imp[i].v * total_hours, SumV(imp))]]

\* Mutation of ApplyFloor: the budget condition is dropped.
ApplyFloorAlways(hours, total_hours) ==
    [i \in DOMAIN hours |->
        IF hours[i].v < min_hours
        THEN [name |-> hours[i].name, v |-> min_hours]
        ELSE hours[i]]

\* Minimum time for each topic, when the budget covers all topics.
ApplyFloor(hours, total_hours) ==
    [i \in DOMAIN hours |->
        IF hours[i].v < min_hours /\ total_hours >= min_hours * Len(hours)
        THEN [name |-> hours[i].name, v |-> min_hours]
        ELSE hours[i]]

\* Normalize to match total hours.
Normalize(hours, total_hours) ==
    IF SumV(hours) > 0
    THEN [i \in DOMAIN hours |->
            [name |-> hours[i].name,
             v |-> RoundHalfEven(hours[i].v * total_hours, SumV(hours))]]
    ELSE hours

allocate_time_to_topics(imp, total_hours) ==
    IF imp = <<>> THEN <<>>
    ELSE IF SumV(imp) = 0 THEN EqualSplit(imp, total_hours)
    ELSE Normalize(ApplyFloor(Proportional(imp, total_hours), total_hours),
                   total_hours)

---------------------------------------------------------------------------
(* StudyPlannerService._calculate_topic_importance *)

\* importance_scores.get(q, 0.5) for q in questions
TopicScores(qs, scores) == [i \in DOMAIN qs |-> Get(scores, qs[i], 500)]

\* Mutation of CombinedImportance: the question weight is not capped at 1.
CombinedImportanceUncapped(qs, scores) ==
    IF qs = <<>> THEN 0
    ELSE LET total == SumSeq(TopicScores(qs, scores))
             question_weight == 100 * Len(qs)
         IN  RoundHalfEven(7 * total + 3 * question_weight * Len(qs),
                           10 * Len(qs))

\* round(0.7 * avg_score + 0.3 * min(1.0, len / 10), 3), or 0.0 when empty
CombinedImportance(qs, scores) ==
    IF qs = <<>> THEN 0
    ELSE LET total == SumSeq(TopicScores(qs, scores))
             question_weight == Min(1000, 100 * Len(qs))
         IN  RoundHalfEven(7 * total + 3 * question_weight * Len(qs),
                           10 * Len(qs))

calculate_topic_importance(tps, scores) ==
    [i \in DOMAIN tps |->
        [name |-> tps[i].name, v |-> CombinedImportance(tps[i].v, scores)]]

---------------------------------------------------------------------------
(* StudyPlannerService._create_study_sessions *)

\* Mutation of InsertDesc: an item goes before the items of equal key
\* (what sorting ascending and reversing the result does).
RECURSIVE InsertDescBeforeEqual(_, _)
InsertDescBeforeEqual(s, x) ==
    IF s = <<>> THEN <<x>>
    ELSE IF Head(s).key > x.key
         THEN <<Head(s)>> \o InsertDescBeforeEqual(Tail(s), x)
         ELSE <<x>> \o s

\* sorted(..., key=..., reverse=True) on a list of [key, item] pairs:
\* descending by key, items of equal key kept in their original order.
RECURSIVE InsertDesc(_, _)
InsertDesc(s, x) ==
    IF s = <<>> THEN <<x>>
    ELSE IF Head(s).key >= x.key
         THEN <<Head(s)>> \o InsertDesc(Tail(s), x)
         ELSE <<x>> \o s

RECURSIVE SortDesc(_)
SortDesc(s) ==
    IF s = <<>> THEN <<>>
    ELSE InsertDesc(SortDesc(SubSeq(s, 1, Len(s) - 1)), s[Len(s)])

Items(s) == [i \in DOMAIN s |-> s[i].item]

\* Mutation of SortTopics: the topics stay in the order of the map.
SortTopicsUnsorted(hours) == hours

\* sorted(topic_hours.items(), key=lambda x: x[1], reverse=True)
SortTopics(hours) ==
    Items(SortDesc([i \in DOMAIN hours |->
                        [key |-> hours[i].v, item |-> hours[i]]]))

\* Mutation of SortQuestions: a question without a score is sorted as 0.5.
SortQuestionsNeutral(qs, scores) ==
    Items(SortDesc([i \in DOMAIN qs |->
                        [key |-> Get(scores, qs[i], 500), item |-> qs[i]]]))

\* sorted(questions, key=lambda q: importance_scores.get(q, 0.0), reverse=True)
SortQuestions(qs, scores) ==
    Items(SortDesc([i \in DOMAIN qs |->
                        [key |-> Get(scores, qs[i], 0), item |-> qs[i]]]))

\* s[a:b] for 0 <= a, 0 <= b
Slice(s, a, b) == SubSeq(s, a + 1, Min(b, Len(s)))

\* q[:100]
Excerpt(q) == <<q[1], 0>>

\* Mutation of NumSessions: the quotient is rounded up.
NumSessionsCeiling(hours, sd) ==
    IF sd > 0 THEN Max(1, (hours * 60 + 100 * sd - 1) \div (100 * sd)) ELSE 1

\* max(1, int(total_minutes / study_duration)), total_minutes = hours * 60
NumSessions(hours, sd) ==
    IF sd > 0 THEN Max(1, TruncDiv(hours * 60, 100 * sd)) ELSE 1

\* total_minutes / num_sessions
MinutesPerSession(hours, sd) == Frac(hours * 60, 100 * NumSessions(hours, sd))

\* sum(importance_scores.get(q, 0.5) for q in sq) / max(len(sq), 1), 3 decimals
SessionImportance(sq, scores) ==
    RoundHalfEven(SumSeq(TopicScores(sq, scores)), Max(Len(sq), 1))

\* Mutation of NeedsNextDay: the time already placed is compared, not the
\* time after placing the session.
NeedsNextDayLate(daily, mps) == FracGt(daily, max_daily_time)

\* daily_study_time + minutes_per_session > max_daily_time
NeedsNextDay(daily, mps) == FracGt(FracAdd(daily, mps), max_daily_time)

\* Mutation of EndIdx: the last session gets a chunk like the others.
EndIdxNoRemainder(i, num_sessions, start_idx, qps, n) == start_idx + qps

\* end_idx of session i: the last session takes the rest of the list
EndIdx(i, num_sessions, start_idx, qps, n) ==
    IF i < num_sessions - 1 THEN start_idx + qps ELSE n

\* int(minutes_per_session)
SessionDuration(mps) == TruncDiv(mps.n, mps.d)

\* The inner loop, iterations i .. num_sessions - 1, on the loop state st.
RECURSIVE SessionLoop(_, _, _, _, _, _)
SessionLoop(i, name, hours, tq, scores_sd, st) ==
    LET scores == scores_sd[1]
        sd == scores_sd[2]
        num_sessions == NumSessions(hours, sd)
        mps == MinutesPerSession(hours, sd)
        qps == Max(1, Len(tq) \div num_sessions)
        nextday == NeedsNextDay(st.daily_study_time, mps)
        day == IF nextday THEN st.current_day + 1 ELSE st.current_day
        daily == IF nextday THEN Frac(0, 1) ELSE st.daily_study_time
        start_idx == i * qps
        end_idx == EndIdx(i, num_sessions, start_idx, qps, Len(tq))
        sq == Slice(tq, start_idx, end_idx)
        session == [topic |-> name,
                    duration_minutes |-> SessionDuration(mps),
                    importance_score |-> SessionImportance(sq, scores),
                    questions_to_cover |-> [k \in DOMAIN sq |-> Excerpt(sq[k])],
                    day |-> day,
                    session_number |-> st.session_number]
    IN  IF i >= num_sessions THEN st
        ELSE SessionLoop(i + 1, name, hours, tq, scores_sd,
                [sessions |-> Append(st.sessions, session),
                 session_number |-> st.session_number + 1,
                 current_day |-> day,
                 daily_study_time |-> FracAdd(daily, mps)])

\* Mutation of TopicIteration: the sequence number restarts with each topic.
TopicIterationRenumbered(e, tps, scores, sd, st) ==
    IF e.name \notin Names(tps) THEN st
    ELSE SessionLoop(0, e.name, e.v, SortQuestions(Lookup(tps, e.name), scores),
                     <<scores, sd>>, [st EXCEPT !.session_number = 0])

\* Mutation of TopicIteration: the day count restarts with each topic.
TopicIterationDayRestart(e, tps, scores, sd, st) ==
    IF e.name \notin Names(tps) THEN st
    ELSE SessionLoop(0, e.name, e.v, SortQuestions(Lookup(tps, e.name), scores),
                     <<scores, sd>>, [st EXCEPT !.current_day = 1])

\* Mutation of TopicIteration: a topic without allocated time is passed over.
TopicIterationSkipUnfunded(e, tps, scores, sd, st) ==
    IF e.name \notin Names(tps) \/ e.v = 0 THEN st
    ELSE SessionLoop(0, e.name, e.v, SortQuestions(Lookup(tps, e.name), scores),
                     <<scores, sd>>, st)

\* One iteration of the outer loop, for the topic entry e of sorted_topics.
TopicIteration(e, tps, scores, sd, st) ==
    IF e.name \notin Names(tps) THEN st
    ELSE SessionLoop(0, e.name, e.v, SortQuestions(Lookup(tps, e.name), scores),
                     <<scores, sd>>, st)

---------------------------------------------------------------------------
(* StudyPlannerService.predict_important_questions *)

\* scored_questions, sorted by importance_score descending, cut to top_n
predict_important_questions(qs, scores, n) ==
    LET scored == [i \in DOMAIN qs |->
                     [question |-> qs[i],
                      importance_score |-> Get(scores, qs[i], 0)]]
        ordered == Items(SortDesc([i \in DOMAIN scored |->
                      [key |-> scored[i].importance_score, item |-> scored[i]]]))
    IN  Slice(ordered, 0, n)

---------------------------------------------------------------------------
(* NLPService.calculate_importance_scores *)
(* A group of similar questions is the set of its 'indices', counted from  *)
(* 1; similar_groups is the set of the groups, which are disjoint and hold *)
(* two indices or more.  A missing year (None) is the year 0.              *)

\* Largest element of a non-empty set of integers
SetMax(S) == CHOOSE m \in S : \A x \in S : x <= m

\* The texts that are keys of frequency_map
Grouped(qs, groups) == {qs[k] : k \in UNION groups}

\* frequency_map[text]: every index of the text adds the size of its group
RECURSIVE FrequencyOf(_, _, _)
FrequencyOf(qs, groups, text) ==
    IF groups = {} THEN 0
    ELSE LET g == CHOOSE x \in groups : TRUE
         IN  Cardinality(g) * Cardinality({k \in g : qs[k] = text})
                + FrequencyOf(qs, groups \ {g}, text)

\* max(frequency_map.values()) if frequency_map else 1
MaxFreq(qs, groups) ==
    IF Grouped(qs, groups) = {} THEN 1
    ELSE SetMax({FrequencyOf(qs, groups, t) : t \in Grouped(qs, groups)})

\* freq_score = frequency_map.get(question, 1) / max_freq, as a fraction
FreqScore(qs, groups, i) ==
    [n |-> IF qs[i] \in Grouped(qs, groups)
           THEN FrequencyOf(qs, groups, qs[i]) ELSE 1,
     d |-> MaxFreq(qs, groups)]

\* recency_score in tenths: 0.5, or max(0, 1 - (current_year - year) / 10)
RecencyTenths(ys, i) ==
    IF ys # <<>> /\ i <= Len(ys) /\ ys[i] # 0
    THEN Max(0, 10 - (current_year - ys[i]))
    ELSE 5

\* topic_score as a fraction: 0.5, or for the first topic that holds the
\* question min(1.0, len(topic_qs) / (len(questions) / len(topics)))
TopicScore(qs, tps, i) ==
    LET holding == {k \in DOMAIN tps : qs[i] \in {tps[k].v[j] : j \in DOMAIN tps[k].v}}
    IN  IF holding = {} THEN [n |-> 1, d |-> 2]
        ELSE LET k == CHOOSE x \in holding : \A y \in holding : x <= y
             IN  [n |-> Min(Len(qs), Len(tps[k].v) * Len(tps)), d |-> Len(qs)]

\* round(0.4 * freq_score + 0.3 * recency_score + 0.3 * topic_score, 3)
Importance(qs, tps, ys, groups, i) ==
    LET f == FreqScore(qs, groups, i)
        r == RecencyTenths(ys, i)
        t == TopicScore(qs, tps, i)
    IN  RoundHalfEven(400 * f.n * t.d + 30 * r * f.d * t.d + 300 * t.n * f.d,
                      f.d * t.d)

\* scores: one entry per text, written in list order, the last one stays
calculate_importance_scores(qs, tps, ys, groups) ==
    [t \in {qs[i] : i \in DOMAIN qs} |->
        Importance(qs, tps, ys, groups,
                   SetMax({i \in DOMAIN qs : qs[i] = t}))]

---------------------------------------------------------------------------
(* POST /generate: StudyScheduleRequest and the generate_schedule handler *)
(* topics_to_include is the set of the listed names; None and the empty    *)
(* list are both {}: the handler only tests the field for truth (line 54)  *)
(* and for membership (line 57).                                           *)

\* Mutation of ValidHours: zero hours pass.
ValidHoursNonNegative(h) == h >= 0 /\ ~(h > max_available_hours)

\* Field(..., gt=0) and validate_hours
ValidHours(h) == h > 0 /\ ~(h > max_available_hours)

\* importance_map = {q['text']: q.get('importance_score', 0.0) for q in questions}
ImportanceMap(db) ==
    [t \in {db[i].text : i \in DOMAIN db} |->
        db[SetMax({i \in DOMAIN db : db[i].text = t})].importance_score]

\* {k: v for k, v in topics.items() if k in request.topics_to_include},
\* when topics_to_include is true
FilterTopics(tps, include) ==
    IF include # {} THEN SelectSeq(tps, LAMBDA e : e.name \in include)
    ELSE tps

---------------------------------------------------------------------------
(* Inputs *)

\* Question texts: two short ones, and a long one that starts like the second.
Texts == {<<1, 0>>, <<2, 0>>, <<2, 1>>}

\* Question importance scores (thousandths) a caller passes.
ImportanceValues == {200, 900}

\* available_hours of a generate_schedule call (hundredths of an hour).
AvailableHours == {40, 100, 668}

\* study_duration of a generate_schedule call (minutes).
StudyDurations == {0, 25, 200}

\* Topic importances (thousandths) and total_hours (hundredths) of a direct
\* _allocate_time_to_topics call.
AllocImportances == {0, 10, 100, 500, 900, 990}

AllocHours == {0, 40, 100, 200, 500, 1000}

TopicName == <<"Networks", "Algorithms", "Databases", "Compilers", "Graphs">>

Injective(s) == \A i, j \in DOMAIN s : i # j => s[i] # s[j]

Range(s) == {s[i] : i \in DOMAIN s}

\* Lists of distinct question texts.
QuestionLists ==
    {s \in UNION {[1..k -> Texts] : k \in 0..Cardinality(Texts)} : Injective(s)}

\* topics dicts: the i-th inserted topic is TopicName[i] (insertion order is
\* not alphabetical order), and no text is in two topics.
TopicDicts ==
    UNION {{[i \in 1..k |-> [name |-> TopicName[i], v |-> f[i]]] :
                f \in {g \in [1..k -> QuestionLists] :
                          \A i, j \in 1..k :
                              i # j => Range(g[i]) \cap Range(g[j]) = {}}} :
           k \in 0..MaxTopics}

\* importance_scores dicts: any subset of the texts scored.
ImportanceMaps == UNION {[D -> ImportanceValues] : D \in SUBSET Texts}

\* The topic importances of the scenario: three questions of importance
\* 0.9, 0.8, 0.7 in Algorithms, one of importance 0.5 in Databases.
ScenarioImportance ==
    <<[name |-> "Algorithms", v |-> 650], [name |-> "Databases", v |-> 380]>>

\* topic_importance dicts of a direct _allocate_time_to_topics call.
ImportanceDicts ==
    UNION {{[i \in 1..k |-> [name |-> TopicName[i], v |-> f[i]]] :
                f \in [1..k -> AllocImportances]} : k \in 0..MaxAllocTopics}
      \cup {ScenarioImportance}

\* questions of a calculate_importance_scores call: the first n texts
QuestionOrder == <<<<1, 0>>, <<2, 0>>, <<2, 1>>>>

ScoredLists == {SubSeq(QuestionOrder, 1, n) : n \in 0..Len(QuestionOrder)}

\* years: none (0), beyond the 10-year window, recent, and after current_year
YearValues == {0, 2010, 2020, 2030}

YearLists(n) == UNION {[1..k -> YearValues] : k \in 0..n}

\* What detect_similar_questions can return for n questions
Groupings(n) ==
    {G \in SUBSET {g \in SUBSET (1..n) : Cardinality(g) >= 2} :
        \A g, h \in G : g # h => g \cap h = {}}

\* Stored questions: the first n texts, each with its importance score
QuestionDBs ==
    UNION {{[i \in 1..n |-> [text |-> QuestionOrder[i],
                             importance_score |-> f[i]]] :
                f \in [1..n -> ImportanceValues]} :
           n \in 0..Len(QuestionOrder)}

\* available_hours of a request (hundredths): negative, zero, two plausible
\* values, and one above 1000 hours
RequestHours == {-100, 0, 40, 100, 100100}

\* topics_to_include of a request; no topic is ever named "Graphs"
IncludeLists == {{}, {"Networks"}, {"Networks", "Algorithms"}, {"Graphs"}}

Requests ==
    [available_hours : RequestHours, study_duration : StudyDurations,
     topics_to_include : IncludeLists]

\* What classify_questions can return for a non-empty list of questions:
\* a non-empty dict of non-empty lists of these questions
Classifications(texts) ==
    {d \in TopicDicts :
        /\ d # <<>>
        /\ \A i \in DOMAIN d : d[i].v # <<>> /\ Range(d[i].v) \subseteq texts}

\* Arguments of the generate_schedule calls that run together
CallTopics ==
    {<<[name |-> "Networks", v |-> <<>>]>>,
     <<[name |-> "Networks", v |-> <<<<1, 0>>, <<2, 1>>>>]>>,
     <<[name |-> "Networks", v |-> <<<<1, 0>>>>],
       [name |-> "Algorithms", v |-> <<<<2, 0>>, <<2, 1>>>>]>>}

CallScores ==
    {<<>>, (<<1, 0>> :> 200) @@ (<<2, 0>> :> 900) @@ (<<2, 1>> :> 900)}

CallHours == {100, 668}

\* break_duration of the calls that run together: the default of line 23
CallBreaks == {5}

CallArguments ==
    [topics : CallTopics, importance_scores : CallScores,
     available_hours : CallHours, study_duration : StudyDurations,
     break_duration : CallBreaks]

\* break_duration of two calls that differ in nothing else
BreakDurations == {0, 5, 30}

\* The calls on the study_planner singleton
CallIds == {1, 2}

\* A topic of n questions for a direct _calculate_topic_importance call
TopicOfSize(n) == [k \in 1..n |-> <<k, 0>>]

\* Importance scores of that topic's questions: the first m questions have
\* the score hi, the others the score lo, or no score when lo is -1
AggregationScores == {-1, 0, 200, 1000}

ScoresOfTopic(n, m, hi, lo) ==
    [q \in {<<k, 0>> : k \in {j \in 1..n : j <= m \/ lo # -1}} |->
        IF q[1] <= m THEN hi ELSE lo]

\* The exact value of 0.7 * avg_score + 0.3 * question_weight lies halfway
\* between two thousandths: there the float of the code decides the rounding.
RoundingTie(qs, scores) ==
    /\ qs # <<>>
    /\ LET total == SumSeq(TopicScores(qs, scores))
            question_weight == Min(1000, 100 * Len(qs))
       IN  2 * ((7 * total + 3 * question_weight * Len(qs)) % (10 * Len(qs)))
              = 10 * Len(qs)

---------------------------------------------------------------------------
(* State machine *)

NoFrac == Frac(0, 1)

\* No calculate_importance_scores call
NlpIdle == years = <<>> /\ similar_groups = <<>> /\ nlp_scores = <<>>

\* No request being served, memory_db as constructed
ApiIdle ==
    /\ request = <<>> /\ http_status = 0
    /\ question_db = <<>> /\ schedules = <<>> /\ next_id = 1

\* No calls running together
CallsIdle == calls = <<>>

\* No classify_questions call
ClassifyIdle ==
    num_topics = 0 /\ ml_state = "idle" /\ keywords = <<>> /\ labels = <<>>

\* No timer and no timer call
TimerIdle ==
    /\ active_timers = <<>> /\ timer_configs = <<>>
    /\ timer_call = <<>> /\ timer_reply = <<>>

OthersIdle == ClassifyIdle /\ TimerIdle

\* A generate_schedule call with its arguments bound.
Init ==
    /\ pc = "generate_schedule"
    /\ topics \in TopicDicts
    /\ importance_scores \in ImportanceMaps
    /\ available_hours \in AvailableHours
    /\ study_duration \in StudyDurations
    /\ topic_importance = <<>>
    /\ topic_hours = <<>>
    /\ sorted_topics = <<>>
    /\ topic_pos = 0
    /\ sessions = <<>>
    /\ session_number = 0
    /\ current_day = 0
    /\ daily_study_time = NoFrac
    /\ response = <<>>
    /\ questions = <<>>
    /\ top_n = 0
    /\ predicted = <<>>
    /\ NlpIdle /\ ApiIdle /\ CallsIdle
    /\ OthersIdle

\* generate_schedule, line 44
CalculateTopicImportance ==
    /\ pc = "generate_schedule"
    /\ topic_importance' = calculate_topic_importance(topics, importance_scores)
    /\ pc' = "allocate"
    /\ UNCHANGED <<topics, importance_scores, available_hours, study_duration,
                   topic_hours, sorted_topics, topic_pos, sessions,
                   session_number, current_day, daily_study_time, response,
                   questions, top_n, predicted>>
    /\ UNCHANGED <<nlp_vars, api_vars, calls>>
    /\ UNCHANGED other_vars

\* generate_schedule, line 45
AllocateTimeToTopics ==
    /\ pc = "allocate"
    /\ topic_hours' = allocate_time_to_topics(topic_importance, available_hours)
    /\ pc' = "create_sessions"
    /\ UNCHANGED <<topics, importance_scores, available_hours, study_duration,
                   topic_importance, sorted_topics, topic_pos, sessions,
                   session_number, current_day, daily_study_time, response,
                   questions, top_n, predicted>>
    /\ UNCHANGED <<nlp_vars, api_vars, calls>>
    /\ UNCHANGED other_vars

\* _create_study_sessions, lines 175-182: locals and the sorted topic list
StartSessions ==
    /\ pc = "create_sessions"
    /\ sessions' = <<>>
    /\ session_number' = 0
    /\ current_day' = 1
    /\ daily_study_time' = Frac(0, 1)
    /\ sorted_topics' = SortTopics(topic_hours)
    /\ topic_pos' = 0
    /\ pc' = "topic_loop"
    /\ UNCHANGED <<topics, importance_scores, available_hours, study_duration,
                   topic_importance, topic_hours, response,
                   questions, top_n, predicted>>
    /\ UNCHANGED <<nlp_vars, api_vars, calls>>
    /\ UNCHANGED other_vars

\* _create_study_sessions, lines 184-233: one topic of the outer loop.
\* A study_duration of 0 raises ZeroDivisionError at line 193.
TopicLoop ==
    /\ pc = "topic_loop"
    /\ topic_pos < Len(sorted_topics)
    /\ LET e == sorted_topics[topic_pos + 1]
           st == [sessions |-> sessions, session_number |-> session_number,
                  current_day |-> current_day,
                  daily_study_time |-> daily_study_time]
       IN  IF e.name \in Names(topics) /\ study_duration = 0
           THEN /\ pc' = "raised"
                /\ UNCHANGED <<sessions, session_number, current_day,
                               daily_study_time, topic_pos>>
           ELSE LET nx == TopicIteration(e, topics, importance_scores,
                                         study_duration, st)
                IN  /\ sessions' = nx.sessions
                    /\ session_number' = nx.session_number
                    /\ current_day' = nx.current_day
                    /\ daily_study_time' = nx.daily_study_time
                    /\ topic_pos' = topic_pos + 1
                    /\ pc' = pc
    /\ UNCHANGED <<topics, importance_scores, available_hours, study_duration,
                   topic_importance, topic_hours, sorted_topics, response,
                   questions, top_n, predicted>>
    /\ UNCHANGED <<nlp_vars, api_vars, calls>>
    /\ UNCHANGED other_vars

\* generate_schedule, lines 56-73: totals and the response
total_study_minutes(ss) == SumSeq([i \in DOMAIN ss |-> ss[i].duration_minutes])

\* Mutation of TotalHours: the hours are truncated to 2 decimals.
TotalHoursTruncated(ss) == (100 * total_study_minutes(ss)) \div 60

\* round(total_study_time, 2), total_study_time = minutes / 60
TotalHours(ss) == RoundHalfEven(100 * total_study_minutes(ss), 60)

Assemble ==
    /\ pc = "topic_loop"
    /\ topic_pos = Len(sorted_topics)
    /\ response' = <<[total_hours |-> TotalHours(sessions),
                      total_sessions |-> Len(sessions),
                      sessions |-> sessions,
                      topic_distribution |-> topic_hours]>>
    /\ pc' = "returned"
    /\ UNCHANGED <<topics, importance_scores, available_hours, study_duration,
                   topic_importance, topic_hours, sorted_topics, topic_pos,
                   sessions, session_number, current_day, daily_study_time,
                   questions, top_n, predicted>>
    /\ UNCHANGED <<nlp_vars, api_vars, calls>>
    /\ UNCHANGED other_vars

Next ==
    \/ CalculateTopicImportance
    \/ AllocateTimeToTopics
    \/ StartSessions
    \/ TopicLoop
    \/ Assemble

Spec == Init /\ [][Next]_vars

\* A direct _allocate_time_to_topics call with its arguments bound.
InitAllocate ==
    /\ pc = "allocate_call"
    /\ topic_importance \in ImportanceDicts
    /\ available_hours \in AllocHours
    /\ topics = <<>>
    /\ importance_scores = <<>>
    /\ study_duration = 0
    /\ topic_hours = <<>>
    /\ sorted_topics = <<>>
    /\ topic_pos = 0
    /\ sessions = <<>>
    /\ session_number = 0
    /\ current_day = 0
    /\ daily_study_time = NoFrac
    /\ response = <<>>
    /\ questions = <<>>
    /\ top_n = 0
    /\ predicted = <<>>
    /\ NlpIdle /\ ApiIdle /\ CallsIdle
    /\ OthersIdle

AllocateCall ==
    /\ pc = "allocate_call"
    /\ topic_hours' = allocate_time_to_topics(topic_importance, available_hours)
    /\ pc' = "allocated"
    /\ UNCHANGED <<topics, importance_scores, available_hours, study_duration,
                   topic_importance, sorted_topics, topic_pos, sessions,
                   session_number, current_day, daily_study_time, response,
                   questions, top_n, predicted>>
    /\ UNCHANGED <<nlp_vars, api_vars, calls>>
    /\ UNCHANGED other_vars

NextAllocate == AllocateCall

SpecAllocate == InitAllocate /\ [][NextAllocate]_vars

\* A predict_important_questions call with its arguments bound.
InitPredict ==
    /\ pc = "predict_call"
    /\ questions \in QuestionLists
    /\ importance_scores \in ImportanceMaps
    /\ top_n \in 0..MaxTopN
    /\ topics = <<>>
    /\ available_hours = 0
    /\ study_duration = 0
    /\ topic_importance = <<>>
    /\ topic_hours = <<>>
    /\ sorted_topics = <<>>
    /\ topic_pos = 0
    /\ sessions = <<>>
    /\ session_number = 0
    /\ current_day = 0
    /\ daily_study_time = NoFrac
    /\ response = <<>>
    /\ predicted = <<>>
    /\ NlpIdle /\ ApiIdle /\ CallsIdle
    /\ OthersIdle

PredictCall ==
    /\ pc = "predict_call"
    /\ predicted' = predict_important_questions(questions, importance_scores, top_n)
    /\ pc' = "predicted"
    /\ UNCHANGED <<topics, importance_scores, available_hours, study_duration,
                   topic_importance, topic_hours, sorted_topics, topic_pos,
                   sessions, session_number, current_day, daily_study_time,
                   response, questions, top_n>>
    /\ UNCHANGED <<nlp_vars, api_vars, calls>>
    /\ UNCHANGED other_vars

NextPredict == PredictCall

SpecPredict == InitPredict /\ [][NextPredict]_vars

\* No planner call
PlannerIdle ==
    /\ available_hours = 0 /\ study_duration = 0
    /\ importance_scores = <<>>
    /\ topic_importance = <<>> /\ topic_hours = <<>>
    /\ sorted_topics = <<>> /\ topic_pos = 0
    /\ sessions = <<>> /\ session_number = 0
    /\ current_day = 0 /\ daily_study_time = NoFrac
    /\ response = <<>>
    /\ top_n = 0 /\ predicted = <<>>

\* A calculate_importance_scores call with its arguments bound and the
\* result of detect_similar_questions (line 363) chosen.
InitScore ==
    /\ pc = "score_call"
    /\ questions \in ScoredLists
    /\ topics \in TopicDicts
    /\ years \in YearLists(Len(questions))
    /\ similar_groups \in Groupings(Len(questions))
    /\ nlp_scores = <<>>
    /\ PlannerIdle /\ ApiIdle /\ CallsIdle
    /\ OthersIdle

ScoreCall ==
    /\ pc = "score_call"
    /\ nlp_scores' = calculate_importance_scores(questions, topics, years,
                                                 similar_groups)
    /\ pc' = "scored"
    /\ UNCHANGED <<topics, importance_scores, available_hours, study_duration,
                   topic_importance, topic_hours, sorted_topics, topic_pos,
                   sessions, session_number, current_day, daily_study_time,
                   response, questions, top_n, predicted,
                   years, similar_groups, api_vars, calls>>
    /\ UNCHANGED other_vars

NextScore == ScoreCall

SpecScore == InitScore /\ [][NextScore]_vars

\* A POST /generate request arrives; memory_db holds questions and no
\* schedule.
InitApi ==
    /\ pc = "request"
    /\ request \in Requests
    /\ question_db \in QuestionDBs
    /\ schedules = <<>>
    /\ next_id = Len(question_db) + 1
    /\ http_status = 0
    /\ topics = <<>> /\ questions = <<>>
    /\ PlannerIdle /\ NlpIdle /\ CallsIdle
    /\ OthersIdle

\* StudyScheduleRequest, schemas.py lines 60-73: a body that fails the
\* validation is answered 422 and the handler does not run
ValidateRequest ==
    /\ pc = "request"
    /\ IF ValidHours(request.available_hours)
       THEN pc' = "handler" /\ UNCHANGED http_status
       ELSE pc' = "responded" /\ http_status' = 422
    /\ UNCHANGED <<topics, importance_scores, available_hours, study_duration,
                   topic_importance, topic_hours, sorted_topics, topic_pos,
                   sessions, session_number, current_day, daily_study_time,
                   response, questions, top_n, predicted,
                   request, question_db, schedules, next_id, nlp_vars, calls>>
    /\ UNCHANGED other_vars

\* handler, lines 37-47
FetchQuestions ==
    /\ pc = "handler"
    /\ IF question_db = <<>>
       THEN /\ pc' = "responded" /\ http_status' = 400
            /\ UNCHANGED <<questions, importance_scores>>
       ELSE /\ questions' = [i \in DOMAIN question_db |-> question_db[i].text]
            /\ importance_scores' = ImportanceMap(question_db)
            /\ pc' = "classify"
            /\ UNCHANGED http_status
    /\ UNCHANGED <<topics, available_hours, study_duration,
                   topic_importance, topic_hours, sorted_topics, topic_pos,
                   sessions, session_number, current_day, daily_study_time,
                   response, top_n, predicted,
                   request, question_db, schedules, next_id, nlp_vars, calls>>
    /\ UNCHANGED other_vars

\* handler, line 51
ClassifyQuestions ==
    /\ pc = "classify"
    /\ topics' \in Classifications(Range(questions))
    /\ pc' = "filter"
    /\ UNCHANGED <<importance_scores, available_hours, study_duration,
                   topic_importance, topic_hours, sorted_topics, topic_pos,
                   sessions, session_number, current_day, daily_study_time,
                   response, questions, top_n, predicted,
                   api_vars, nlp_vars, calls>>
    /\ UNCHANGED other_vars

\* handler, lines 54-76: the filter, the check, and the planner called
FilterAndPlan ==
    /\ pc = "filter"
    /\ topics' = FilterTopics(topics, request.topics_to_include)
    /\ IF topics' = <<>>
       THEN /\ pc' = "responded" /\ http_status' = 400
            /\ UNCHANGED <<available_hours, study_duration>>
       ELSE /\ available_hours' = request.available_hours
            /\ study_duration' = request.study_duration
            /\ pc' = "generate_schedule"
            /\ UNCHANGED http_status
    /\ UNCHANGED <<importance_scores,
                   topic_importance, topic_hours, sorted_topics, topic_pos,
                   sessions, session_number, current_day, daily_study_time,
                   response, questions, top_n, predicted,
                   request, question_db, schedules, next_id, nlp_vars, calls>>
    /\ UNCHANGED other_vars

\* handler, lines 78-84, and Schedule.create
SaveSchedule ==
    /\ pc = "returned"
    /\ schedules' = Append(schedules, [id |-> next_id,
                                       user_id |-> "default_user",
                                       schedule_data |-> response[1]])
    /\ next_id' = next_id + 1
    /\ http_status' = 200
    /\ pc' = "responded"
    /\ UNCHANGED <<topics, importance_scores, available_hours, study_duration,
                   topic_importance, topic_hours, sorted_topics, topic_pos,
                   sessions, session_number, current_day, daily_study_time,
                   response, questions, top_n, predicted,
                   request, question_db, nlp_vars, calls>>
    /\ UNCHANGED other_vars

\* handler, lines 88-90: an exception of the planner is answered 500
PlannerFailed ==
    /\ pc = "raised"
    /\ http_status' = 500
    /\ pc' = "responded"
    /\ UNCHANGED <<topics, importance_scores, available_hours, study_duration,
                   topic_importance, topic_hours, sorted_topics, topic_pos,
                   sessions, session_number, current_day, daily_study_time,
                   response, questions, top_n, predicted,
                   request, question_db, schedules, next_id, nlp_vars, calls>>
    /\ UNCHANGED other_vars

NextApi ==
    \/ ValidateRequest
    \/ FetchQuestions
    \/ ClassifyQuestions
    \/ FilterAndPlan
    \/ CalculateTopicImportance
    \/ AllocateTimeToTopics
    \/ StartSessions
    \/ TopicLoop
    \/ Assemble
    \/ SaveSchedule
    \/ PlannerFailed

SpecApi == InitApi /\ [][NextApi]_vars

\* A direct _calculate_topic_importance call: a topic of n questions and a
\* topic without questions.
InitImportance ==
    /\ pc = "importance_call"
    /\ \E n \in 0..MaxTopicQuestions : \E m \in 0..n :
       \E hi \in AggregationScores \ {-1} : \E lo \in AggregationScores :
          /\ topics = <<[name |-> "Networks", v |-> TopicOfSize(n)],
                        [name |-> "Algorithms", v |-> <<>>]>>
          /\ importance_scores = ScoresOfTopic(n, m, hi, lo)
          /\ ~RoundingTie(TopicOfSize(n), ScoresOfTopic(n, m, hi, lo))
    /\ questions = <<>>
    /\ available_hours = 0 /\ study_duration = 0
    /\ topic_importance = <<>> /\ topic_hours = <<>>
    /\ sorted_topics = <<>> /\ topic_pos = 0
    /\ sessions = <<>> /\ session_number = 0
    /\ current_day = 0 /\ daily_study_time = NoFrac
    /\ response = <<>>
    /\ top_n = 0 /\ predicted = <<>>
    /\ NlpIdle /\ ApiIdle /\ CallsIdle
    /\ OthersIdle

ImportanceCall ==
    /\ pc = "importance_call"
    /\ topic_importance' = calculate_topic_importance(topics, importance_scores)
    /\ pc' = "importance_done"
    /\ UNCHANGED <<topics, importance_scores, available_hours, study_duration,
                   topic_hours, sorted_topics, topic_pos, sessions,
                   session_number, current_day, daily_study_time, response,
                   questions, top_n, predicted, nlp_vars, api_vars, calls>>
    /\ UNCHANGED other_vars

NextImportance == ImportanceCall

SpecImportance == InitImportance /\ [][NextImportance]_vars

---------------------------------------------------------------------------
(* NLPService.classify_questions                                           *)
(* What the code reads of a question text is the keywords it contains:     *)
(* 'keywords' maps every text to the set of table keywords found in it.    *)
(* ml_state is "unavailable" (ML_AVAILABLE false or self.model None),      *)
(* "available", or "failing" (encode or KMeans raises).  labels is what    *)
(* line 147 or line 149 binds: the cluster label of each question.         *)

\* The keywords of the model, in the order of both keyword tables, with the
\* topic name both tables give them.
KeywordTable ==
    << [keyword |-> "algorithm", topic |-> "Algorithms"],
       [keyword |-> "database",  topic |-> "Databases"] >>

Keywords == {KeywordTable[i].keyword : i \in DOMAIN KeywordTable}

\* The name built from the most common words of a text without keyword: a
\* text of stem s gives WordName[s].
WordName == <<"Binary Tree", "Process Thread">>

\* The topic of the first table entry whose keyword is in kws, "" if none.
FirstMatch(kws) ==
    IF \E i \in DOMAIN KeywordTable : KeywordTable[i].keyword \in kws
    THEN KeywordTable[CHOOSE i \in DOMAIN KeywordTable :
            /\ KeywordTable[i].keyword \in kws
            /\ \A j \in 1..(i - 1) : KeywordTable[j].keyword \notin kws].topic
    ELSE ""

\* defaultdict(list): d[name].append(q)
AppendTo(d, name, q) ==
    IF name \in Names(d)
    THEN [i \in DOMAIN d |->
            IF d[i].name = name THEN [d[i] EXCEPT !.v = Append(@, q)] ELSE d[i]]
    ELSE Append(d, [name |-> name, v |-> <<q>>])

\* dict: d[name] = v; a name already in d keeps its place and loses its value
SetItem(d, name, v) ==
    IF name \in Names(d)
    THEN [i \in DOMAIN d |->
            IF d[i].name = name THEN [d[i] EXCEPT !.v = v] ELSE d[i]]
    ELSE Append(d, [name |-> name, v |-> v])

\* The loop of _keyword_based_classification over question i and the rest.
RECURSIVE KeywordLoop(_, _, _, _, _)
KeywordLoop(qs, kw, i, classified, unclassified) ==
    IF i > Len(qs)
    THEN IF unclassified # <<>>
         THEN SetItem(classified, "General", unclassified)
         ELSE classified
    ELSE LET topic == FirstMatch(kw[qs[i]])
         IN  IF topic # ""
             THEN KeywordLoop(qs, kw, i + 1,
                              AppendTo(classified, topic, qs[i]), unclassified)
             ELSE KeywordLoop(qs, kw, i + 1,
                              classified, Append(unclassified, qs[i]))

keyword_based_classification(qs, kw) == KeywordLoop(qs, kw, 1, <<>>, <<>>)

\* min(num_topics, len(questions))
NClusters(qs, n) == Min(n, Len(qs))

\* The labels lines 145-149 can bind: any KMeans labelling with n_clusters
\* labels when there are more questions than clusters, range(len) otherwise.
LabelChoices(qs, n) ==
    IF Len(qs) > NClusters(qs, n)
    THEN [1..Len(qs) -> 0..(NClusters(qs, n) - 1)]
    ELSE {[i \in 1..Len(qs) |-> i - 1]}

\* topic_questions: the questions of each label, labels in order of first use.
RECURSIVE GroupByLabel(_, _, _, _)
GroupByLabel(qs, lbs, i, topic_questions) ==
    IF i > Len(qs) THEN topic_questions
    ELSE GroupByLabel(qs, lbs, i + 1, AppendTo(topic_questions, lbs[i], qs[i]))

\* _extract_topic_name: the first table keyword in the combined text, else
\* the most common words, which start with those of the first question.
extract_topic_name(topic_qs, kw) ==
    LET found == UNION {kw[topic_qs[i]] : i \in DOMAIN topic_qs}
    IN  IF FirstMatch(found) # "" THEN FirstMatch(found)
        ELSE WordName[topic_qs[1][1]]

\* The loop of lines 157-160 over cluster i and the rest.
RECURSIVE NameTopics(_, _, _, _)
NameTopics(topic_questions, kw, i, named_topics) ==
    IF i > Len(topic_questions) THEN named_topics
    ELSE NameTopics(topic_questions, kw, i + 1,
                    SetItem(named_topics,
                            extract_topic_name(topic_questions[i].v, kw),
                            topic_questions[i].v))

classify_questions(qs, ml, kw, lbs) ==
    IF qs = <<>> THEN <<>>
    ELSE IF ml = "unavailable" THEN keyword_based_classification(qs, kw)
    ELSE IF ml = "failing" THEN << [name |-> "General", v |-> qs] >>
    ELSE NameTopics(GroupByLabel(qs, lbs, 1, <<>>), kw, 1, <<>>)

\* num_topics of a call: that of the tests and the default.
NumTopics == {2, 10}

\* The keywords of the texts: a text that continues another one has all the
\* keywords of the shorter text.
KeywordMaps ==
    {kw \in [Texts -> SUBSET Keywords] :
        \A s, t \in Texts : (s[1] = t[1] /\ s[2] = 0) => kw[s] \subseteq kw[t]}

\* A classify_questions call with its arguments bound.
InitClassify ==
    /\ pc = "classify_call"
    /\ questions \in QuestionLists
    /\ num_topics \in NumTopics
    /\ ml_state \in {"unavailable", "available", "failing"}
    /\ keywords \in KeywordMaps
    /\ labels \in IF ml_state = "available"
                  THEN LabelChoices(questions, num_topics)
                  ELSE {<<>>}
    /\ topics = <<>>
    /\ PlannerIdle /\ NlpIdle /\ ApiIdle /\ CallsIdle /\ TimerIdle

ClassifyCall ==
    /\ pc = "classify_call"
    /\ topics' = classify_questions(questions, ml_state, keywords, labels)
    /\ pc' = "classified"
    /\ UNCHANGED <<questions, num_topics, ml_state, keywords, labels>>
    /\ UNCHANGED <<importance_scores, available_hours, study_duration,
                   topic_importance, topic_hours, sorted_topics, topic_pos,
                   sessions, session_number, current_day, daily_study_time,
                   response, top_n, predicted, nlp_vars, api_vars, calls,
                   timer_vars>>

NextClassify == ClassifyCall

SpecClassify == InitClassify /\ [][NextClassify]_vars

---------------------------------------------------------------------------
(* StudyTimerService (app/services/timer_service.py)                       *)
(* active_timers and timer_configs are the two dicts of the service, as    *)
(* functions from the user ids that have a timer.  Times are in seconds,   *)
(* configured durations in minutes.  topic None is "".  timer_call is the  *)
(* call served last and timer_reply what it returned (state <<>> is None). *)
(* The methods are coroutines without a suspension point (the only await   *)
(* is start_timer's call of create_timer): each call is one step.          *)

\* TimerConfig(...) of create_timer lines 39-44, equal to the defaults of
\* the /create handler.
DefaultConfig ==
    [study_duration |-> DEFAULT_STUDY_DURATION,
     break_duration |-> DEFAULT_BREAK_DURATION,
     long_break_duration |-> DEFAULT_LONG_BREAK_DURATION,
     sessions_until_long_break |-> POMODOROS_UNTIL_LONG_BREAK]

\* The configurations /create is called with.
TimerConfigs ==
    { DefaultConfig,
      [study_duration |-> 10, break_duration |-> 5,
       long_break_duration |-> 15, sessions_until_long_break |-> 2],
      [study_duration |-> 0, break_duration |-> 0,
       long_break_duration |-> 0, sessions_until_long_break |-> 0] }

Users == {"u1", "u2"}

\* elapsed_seconds of update_timer
ElapsedSeconds == {0, 600, 1500}

\* topic of start_timer
StartTopics == {"", "Networks"}

\* d[key] = value
Put(d, key, value) ==
    [k \in DOMAIN d \cup {key} |-> IF k = key THEN value ELSE d[k]]

\* TimerState(...) of create_timer and reset_timer
InitialState(config) ==
    [is_running |-> FALSE,
     is_break |-> FALSE,
     current_session |-> 0,
     time_remaining |-> config.study_duration * 60,
     topic |-> ""]

\* state.current_session % config.sessions_until_long_break == 0
LongBreakDue(state, config) ==
    state.current_session % config.sessions_until_long_break = 0

\* The modulo of line 94 raises ZeroDivisionError.
StartRaises(state, config) ==
    /\ state.time_remaining = 0
    /\ ~state.is_break
    /\ config.sessions_until_long_break = 0

\* Mutation of NextSession: the session is counted when it ends, not when
\* the next one starts.
NextSessionCountedAtEnd(state, config) ==
    IF state.time_remaining # 0 THEN state
    ELSE IF state.is_break
    THEN [state EXCEPT !.is_break = FALSE,
                       !.time_remaining = config.study_duration * 60]
    ELSE IF config.sessions_until_long_break = 0
    THEN [state EXCEPT !.is_break = TRUE]
    ELSE [state EXCEPT !.is_break = TRUE,
                       !.current_session = @ + 1,
                       !.time_remaining =
                           IF LongBreakDue(state, config)
                           THEN config.long_break_duration * 60
                           ELSE config.break_duration * 60]

\* Lines 83-97 of start_timer: at 0 the timer goes to the next phase.  With
\* sessions_until_long_break = 0 line 91 has acted when line 94 raises.
NextSession(state, config) ==
    IF state.time_remaining # 0 THEN state
    ELSE IF state.is_break
    THEN [state EXCEPT !.is_break = FALSE,
                       !.current_session = @ + 1,
                       !.time_remaining = config.study_duration * 60]
    ELSE IF config.sessions_until_long_break = 0
    THEN [state EXCEPT !.is_break = TRUE]
    ELSE [state EXCEPT !.is_break = TRUE,
                       !.time_remaining =
                           IF LongBreakDue(state, config)
                           THEN config.long_break_duration * 60
                           ELSE config.break_duration * 60]

\* Lines 83-101 of start_timer on the user's state
Started(state, config, topic) ==
    IF StartRaises(state, config) THEN NextSession(state, config)
    ELSE [NextSession(state, config) EXCEPT
             !.is_running = TRUE,
             !.topic = IF topic # "" THEN topic ELSE @]

\* Mutation of Elapsed: the countdown does not look at is_running.
ElapsedWhilePaused(state, elapsed_seconds) ==
    [state EXCEPT !.time_remaining = Max(0, @ - elapsed_seconds)]

\* Mutation of Elapsed: the countdown is not stopped at 0.
ElapsedBelowZero(state, elapsed_seconds) ==
    IF state.is_running
    THEN [state EXCEPT !.time_remaining = @ - elapsed_seconds]
    ELSE state

\* Lines 147-148 of update_timer
Elapsed(state, elapsed_seconds) ==
    IF state.is_running
    THEN [state EXCEPT !.time_remaining = Max(0, @ - elapsed_seconds)]
    ELSE state

\* What a method returns: the state, None, or an exception.
Reply(state) == [raised |-> FALSE, state |-> <<state>>]

ReplyNone == [raised |-> FALSE, state |-> <<>>]

ReplyRaised == [raised |-> TRUE, state |-> <<>>]

Call(op, user_id) == [op |-> op, user_id |-> user_id]

\* A service just built (lines 18-21), no call served yet.
InitTimer ==
    /\ pc = "timer"
    /\ active_timers = <<>>
    /\ timer_configs = <<>>
    /\ timer_call = Call("none", "")
    /\ timer_reply = ReplyNone
    /\ topics = <<>> /\ questions = <<>>
    /\ PlannerIdle /\ NlpIdle /\ ApiIdle /\ CallsIdle /\ ClassifyIdle

\* What the timer service never touches
not_timer_vars ==
    <<pc, topics, importance_scores, available_hours, study_duration,
      topic_importance, topic_hours, sorted_topics, topic_pos, sessions,
      session_number, current_day, daily_study_time, response, questions,
      top_n, predicted, nlp_vars, api_vars, calls, classify_vars>>

CreateTimer(user_id, config) ==
    /\ pc = "timer"
    /\ timer_configs' = Put(timer_configs, user_id, config)
    /\ active_timers' = Put(active_timers, user_id, InitialState(config))
    /\ timer_call' = Call("create", user_id)
    /\ timer_reply' = Reply(InitialState(config))
    /\ UNCHANGED not_timer_vars

\* start_timer; an unknown user first gets a timer of the default
\* configuration (lines 76-77).
StartTimer(user_id, topic) ==
    LET known == user_id \in DOMAIN active_timers
        state == IF known THEN active_timers[user_id]
                 ELSE InitialState(DefaultConfig)
        config == IF known THEN timer_configs[user_id] ELSE DefaultConfig
    IN  /\ pc = "timer"
        /\ ~(state.time_remaining = 0 /\ state.is_break
                /\ state.current_session >= MaxSession)
        /\ timer_configs' = Put(timer_configs, user_id, config)
        /\ active_timers' =
              Put(active_timers, user_id, Started(state, config, topic))
        /\ timer_call' = Call("start", user_id)
        /\ timer_reply' = IF StartRaises(state, config) THEN ReplyRaised
                          ELSE Reply(Started(state, config, topic))
        /\ UNCHANGED not_timer_vars

PauseTimer(user_id) ==
    /\ pc = "timer"
    /\ IF user_id \in DOMAIN active_timers
       THEN /\ active_timers' =
                 [active_timers EXCEPT ![user_id].is_running = FALSE]
            /\ timer_reply' =
                 Reply([active_timers[user_id] EXCEPT !.is_running = FALSE])
       ELSE /\ active_timers' = active_timers
            /\ timer_reply' = ReplyNone
    /\ timer_call' = Call("pause", user_id)
    /\ UNCHANGED timer_configs
    /\ UNCHANGED not_timer_vars

ResetTimer(user_id) ==
    /\ pc = "timer"
    /\ IF user_id \in DOMAIN active_timers
       THEN /\ active_timers' =
                 [active_timers EXCEPT
                     ![user_id] = InitialState(timer_configs[user_id])]
            /\ timer_reply' = Reply(InitialState(timer_configs[user_id]))
       ELSE /\ active_timers' = active_timers
            /\ timer_reply' = ReplyNone
    /\ timer_call' = Call("reset", user_id)
    /\ UNCHANGED timer_configs
    /\ UNCHANGED not_timer_vars

UpdateTimer(user_id, elapsed_seconds) ==
    /\ pc = "timer"
    /\ IF user_id \in DOMAIN active_timers
       THEN /\ active_timers' =
                 [active_timers EXCEPT
                     ![user_id] = Elapsed(@, elapsed_seconds)]
            /\ timer_reply' =
                 Reply(Elapsed(active_timers[user_id], elapsed_seconds))
       ELSE /\ active_timers' = active_timers
            /\ timer_reply' = ReplyNone
    /\ timer_call' = Call("update", user_id)
    /\ UNCHANGED timer_configs
    /\ UNCHANGED not_timer_vars

NextTimer ==
    \/ \E u \in Users, c \in TimerConfigs : CreateTimer(u, c)
    \/ \E u \in Users, t \in StartTopics : StartTimer(u, t)
    \/ \E u \in Users : PauseTimer(u)
    \/ \E u \in Users : ResetTimer(u)
    \/ \E u \in Users, e \in ElapsedSeconds : UpdateTimer(u, e)

SpecTimer == InitTimer /\ [][NextTimer]_vars

---------------------------------------------------------------------------
(* generate_schedule calls running together on the study_planner singleton. *)
(* StudyPlannerService has no attribute: all the state of a call is in its *)
(* arguments and local variables, the frame of the call.                   *)

\* Mutation of StoreLocals: the session list and its counters are kept on
\* the service object, where every call sees what the last writer left.
StoreOnService(frames, c, fr) ==
    [k \in DOMAIN frames |->
        IF k = c THEN fr
        ELSE [frames[k] EXCEPT !.sessions = fr.sessions,
                               !.session_number = fr.session_number,
                               !.current_day = fr.current_day,
                               !.daily_study_time = fr.daily_study_time]]

\* A step of call c writes its own locals only.
StoreLocals(frames, c, fr) == [frames EXCEPT ![c] = fr]

\* Mutation of SessionLength: the break is added to a session's length.
SessionLengthWithBreak(fr) ==
    IF fr.study_duration = 0 THEN 0
    ELSE fr.study_duration + fr.break_duration

\* The session length _create_study_sessions computes with: study_duration.
\* break_duration is a parameter (line 160) that the body never reads.
SessionLength(fr) == fr.study_duration

\* The frame of a call at its entry
EntryFrame(args) ==
    [pc |-> "generate_schedule",
     topics |-> args.topics,
     importance_scores |-> args.importance_scores,
     available_hours |-> args.available_hours,
     study_duration |-> args.study_duration,
     break_duration |-> args.break_duration,
     topic_importance |-> <<>>, topic_hours |-> <<>>,
     sorted_topics |-> <<>>, topic_pos |-> 0,
     sessions |-> <<>>, session_number |-> 0,
     current_day |-> 0, daily_study_time |-> NoFrac,
     response |-> <<>>]

InitConcurrent ==
    /\ calls \in [CallIds -> {EntryFrame(a) : a \in CallArguments}]
    /\ pc = "idle"
    /\ topics = <<>> /\ questions = <<>>
    /\ PlannerIdle /\ NlpIdle /\ ApiIdle
    /\ OthersIdle

\* generate_schedule, line 44, in call c
CallCalculateTopicImportance(c) ==
    /\ calls[c].pc = "generate_schedule"
    /\ calls' = StoreLocals(calls, c,
          [calls[c] EXCEPT
              !.topic_importance =
                  calculate_topic_importance(calls[c].topics,
                                             calls[c].importance_scores),
              !.pc = "allocate"])
    /\ UNCHANGED <<planner_vars, nlp_vars, api_vars>>
    /\ UNCHANGED other_vars

\* generate_schedule, line 45, in call c
CallAllocateTimeToTopics(c) ==
    /\ calls[c].pc = "allocate"
    /\ calls' = StoreLocals(calls, c,
          [calls[c] EXCEPT
              !.topic_hours =
                  allocate_time_to_topics(calls[c].topic_importance,
                                          calls[c].available_hours),
              !.pc = "create_sessions"])
    /\ UNCHANGED <<planner_vars, nlp_vars, api_vars>>
    /\ UNCHANGED other_vars

\* _create_study_sessions, lines 175-182, in call c
CallStartSessions(c) ==
    /\ calls[c].pc = "create_sessions"
    /\ calls' = StoreLocals(calls, c,
          [calls[c] EXCEPT
              !.sessions = <<>>,
              !.session_number = 0,
              !.current_day = 1,
              !.daily_study_time = Frac(0, 1),
              !.sorted_topics = SortTopics(calls[c].topic_hours),
              !.topic_pos = 0,
              !.pc = "topic_loop"])
    /\ UNCHANGED <<planner_vars, nlp_vars, api_vars>>
    /\ UNCHANGED other_vars

\* _create_study_sessions, lines 184-233, in call c: one topic
CallTopicLoop(c) ==
    /\ calls[c].pc = "topic_loop"
    /\ calls[c].topic_pos < Len(calls[c].sorted_topics)
    /\ LET fr == calls[c]
           e == fr.sorted_topics[fr.topic_pos + 1]
           st == [sessions |-> fr.sessions,
                  session_number |-> fr.session_number,
                  current_day |-> fr.current_day,
                  daily_study_time |-> fr.daily_study_time]
           nx == TopicIteration(e, fr.topics, fr.importance_scores,
                                SessionLength(fr), st)
       IN  IF e.name \in Names(fr.topics) /\ SessionLength(fr) = 0
           THEN calls' = StoreLocals(calls, c, [fr EXCEPT !.pc = "raised"])
           ELSE calls' = StoreLocals(calls, c,
                    [fr EXCEPT !.sessions = nx.sessions,
                               !.session_number = nx.session_number,
                               !.current_day = nx.current_day,
                               !.daily_study_time = nx.daily_study_time,
                               !.topic_pos = fr.topic_pos + 1])
    /\ UNCHANGED <<planner_vars, nlp_vars, api_vars>>
    /\ UNCHANGED other_vars

\* generate_schedule, lines 56-73, in call c
CallAssemble(c) ==
    /\ calls[c].pc = "topic_loop"
    /\ calls[c].topic_pos = Len(calls[c].sorted_topics)
    /\ calls' = StoreLocals(calls, c,
          [calls[c] EXCEPT
              !.response = <<[total_hours |-> TotalHours(calls[c].sessions),
                              total_sessions |-> Len(calls[c].sessions),
                              sessions |-> calls[c].sessions,
                              topic_distribution |-> calls[c].topic_hours]>>,
              !.pc = "returned"])
    /\ UNCHANGED <<planner_vars, nlp_vars, api_vars>>
    /\ UNCHANGED other_vars

NextConcurrent ==
    \E c \in CallIds :
        \/ CallCalculateTopicImportance(c)
        \/ CallAllocateTimeToTopics(c)
        \/ CallStartSessions(c)
        \/ CallTopicLoop(c)
        \/ CallAssemble(c)

SpecConcurrent == InitConcurrent /\ [][NextConcurrent]_vars

\* Two generate_schedule calls whose arguments differ in break_duration at
\* most.
InitBreak ==
    /\ \E a \in CallArguments : \E b1, b2 \in BreakDurations :
          calls = [c \in CallIds |->
                      EntryFrame([a EXCEPT !.break_duration =
                                      IF c = 1 THEN b1 ELSE b2])]
    /\ pc = "idle"
    /\ topics = <<>> /\ questions = <<>>
    /\ PlannerIdle /\ NlpIdle /\ ApiIdle
    /\ OthersIdle

SpecBreak == InitBreak /\ [][NextConcurrent]_vars

---------------------------------------------------------------------------
(* Claims about _allocate_time_to_topics, checked under SpecAllocate *)

Allocated == pc = "allocated"

Abs(x) == IF x < 0 THEN -x ELSE x

\* round((importance / total_importance) * total_hours, 2) of entry i
RoundedShare(i) ==
    RoundHalfEven(topic_importance[i].v * available_hours, SumV(topic_importance))

SumRoundedShares ==
    SumSeq([i \in DOMAIN topic_importance |-> RoundedShare(i)])

SmallBudget == available_hours < min_hours * Len(topic_importance)

\* C1: for every non-empty importance map and total_hours >= 0 the returned
\* hours sum to total_hours within 1e-6 relative, in every branch.
C1_AllocationConserved ==
    (Allocated /\ topic_importance # <<>>)
        => 1000000 * Abs(SumV(topic_hours) - available_hours) <= available_hours

\* C2: when total_hours >= 0.5 * (number of topics) and the importance sum
\* is non-zero, every returned topic has at least 0.5 hours.
C2_FloorGuaranteed ==
    (Allocated /\ topic_importance # <<>> /\ SumV(topic_importance) # 0
               /\ ~SmallBudget)
        => \A i \in DOMAIN topic_hours : topic_hours[i].v >= min_hours

\* C3 as stated: when total_hours < 0.5 * (number of topics), every returned
\* allocation equals the proportional share rounded to 2 decimals.
C3_SmallBudgetIsRoundedShare ==
    (Allocated /\ topic_importance # <<>> /\ SumV(topic_importance) # 0
               /\ SmallBudget)
        => \A i \in DOMAIN topic_hours : topic_hours[i].v = RoundedShare(i)

\* C3 as amended: when total_hours < 0.5 * (number of topics), no topic is
\* bumped to 0.5 h, and every returned allocation is the rounded proportional
\* share rescaled by total_hours / (sum of the rounded shares) and rounded to
\* 2 decimals again (the rounded share itself when that sum is 0).
C3_SmallBudgetIsRescaledShare ==
    (Allocated /\ topic_importance # <<>> /\ SumV(topic_importance) # 0
               /\ SmallBudget)
        => /\ Len(topic_hours) = Len(topic_importance)
           /\ \A i \in DOMAIN topic_hours :
                /\ topic_hours[i].name = topic_importance[i].name
                /\ topic_hours[i].v =
                      IF SumRoundedShares > 0
                      THEN RoundHalfEven(RoundedShare(i) * available_hours,
                                         SumRoundedShares)
                      ELSE RoundedShare(i)

\* A small-budget call whose renormalization moved an allocation away from
\* the rounded share.
C3_Witness ==
    /\ Allocated /\ topic_importance # <<>> /\ SumV(topic_importance) # 0
    /\ SmallBudget
    /\ \E i \in DOMAIN topic_hours : topic_hours[i].v # RoundedShare(i)

\* C4: when every importance is 0, each of the k topics gets
\* round(total_hours / k, 2); neither the floor nor the renormalization acts.
C4_EqualWeightFallback ==
    (Allocated /\ topic_importance # <<>> /\ SumV(topic_importance) = 0)
        => /\ Len(topic_hours) = Len(topic_importance)
           /\ \A i \in DOMAIN topic_hours :
                /\ topic_hours[i].name = topic_importance[i].name
                /\ topic_hours[i].v =
                      RoundHalfEven(available_hours, Len(topic_importance))

\* An all-zero call over several topics whose share is not a whole number of
\* hundredths, and is below 0.5 h.
C4_Witness ==
    /\ Allocated /\ Len(topic_importance) >= 2 /\ SumV(topic_importance) = 0
    /\ available_hours % Len(topic_importance) # 0
    /\ \A i \in DOMAIN topic_hours :
          topic_hours[i].v > 0 /\ topic_hours[i].v < min_hours

\* C14: in one call, a topic of higher importance never gets fewer hours
\* than a topic of lower importance; in the scenario (5 hours) Algorithms gets
\* more hours than Databases and the hours sum to 5.00.
C14_MonotoneAllocation ==
    Allocated =>
        /\ \A i, j \in DOMAIN topic_importance :
              topic_importance[i].v > topic_importance[j].v
                  => topic_hours[i].v >= topic_hours[j].v
        /\ (topic_importance = ScenarioImportance /\ available_hours = 500)
              => /\ Lookup(topic_hours, "Algorithms")
                        > Lookup(topic_hours, "Databases")
                 /\ SumV(topic_hours) = 500

\* The scenario, allocated: 3.16 h and 1.84 h.
C14_Witness ==
    /\ Allocated
    /\ topic_importance = ScenarioImportance /\ available_hours = 500
    /\ topic_hours = <<[name |-> "Algorithms", v |-> 316],
                       [name |-> "Databases", v |-> 184]>>

---------------------------------------------------------------------------
(* Claims about generate_schedule, checked under Spec *)

Returned == pc = "returned"

RECURSIVE Concat(_)
Concat(ss) == IF ss = <<>> THEN <<>> ELSE Head(ss) \o Concat(Tail(ss))

SessionsOf(ss, name) == SelectSeq(ss, LAMBDA x : x.topic = name)

OnDay(ss, d) == SelectSeq(ss, LAMBDA x : x.day = d)

Durations(ss) == [i \in DOMAIN ss |-> ss[i].duration_minutes]

\* The question lists of a topic's sessions, concatenated in session order.
Covered(ss, name) ==
    LET own == SessionsOf(ss, name)
    IN  Concat([i \in DOMAIN own |-> own[i].questions_to_cover])

Excerpts(qs) == [i \in DOMAIN qs |-> Excerpt(qs[i])]

\* C5 as stated: for every topic, the question lists of its sessions, put
\* together in session order, are exactly the topic's questions sorted by
\* importance descending.
C5_CoverageOfQuestions ==
    Returned =>
        \A i \in DOMAIN topics :
            Covered(response[1].sessions, topics[i].name)
                = SortQuestions(topics[i].v, importance_scores)

\* C5 as amended: for every topic, the question lists of its sessions, put
\* together in session order, are exactly the first-100-character excerpts of
\* the topic's questions sorted by importance descending: one entry per
\* question, none dropped, none in two sessions.
C5_CoverageOfExcerpts ==
    Returned =>
        \A i \in DOMAIN topics :
            Covered(response[1].sessions, topics[i].name)
                = Excerpts(SortQuestions(topics[i].v, importance_scores))

\* A topic of three questions, one of them longer than 100 characters, in
\* two sessions: the last session takes the remainder.
C5_Witness ==
    /\ Returned
    /\ \E i \in DOMAIN topics :
          /\ Len(topics[i].v) = 3
          /\ \E k \in DOMAIN topics[i].v : topics[i].v[k][2] # 0
          /\ Len(SessionsOf(response[1].sessions, topics[i].name)) = 2

\* C6: the minutes of the sessions placed on one day sum to at most 240,
\* except on a day that holds exactly one session longer than 240 minutes;
\* two consecutive sessions of 200 minutes are on different days.
C6_DailyCap ==
    /\ \A d \in {sessions[i].day : i \in DOMAIN sessions} :
          LET today == OnDay(sessions, d)
          IN  \/ SumSeq(Durations(today)) <= max_daily_time
              \/ Len(today) = 1 /\ today[1].duration_minutes > max_daily_time
    /\ \A i \in 1..(Len(sessions) - 1) :
          (sessions[i].duration_minutes = 200
              /\ sessions[i + 1].duration_minutes = 200)
            => sessions[i].day # sessions[i + 1].day

\* Two consecutive sessions of 200 minutes each, on different days.
C6_Witness ==
    /\ Returned
    /\ \E i \in 1..(Len(sessions) - 1) :
          /\ sessions[i].duration_minutes = 200
          /\ sessions[i + 1].duration_minutes = 200
          /\ sessions[i + 1].day = sessions[i].day + 1

\* C8: total_sessions is the number of sessions and total_hours is the sum
\* of the sessions' duration_minutes / 60, rounded to 2 decimals.
C8_ScheduleTotals ==
    Returned =>
        /\ response[1].total_sessions = Len(response[1].sessions)
        /\ response[1].total_hours =
              RoundHalfEven(100 * SumSeq(Durations(response[1].sessions)), 60)

\* A schedule of several sessions whose minutes are not a whole number of
\* hundredths of an hour, rounded upward.
C8_Witness ==
    /\ Returned
    /\ Len(response[1].sessions) >= 2
    /\ 2 * ((100 * SumSeq(Durations(response[1].sessions))) % 60) > 60

\* C9: every session of a schedule generated for available_hours > 0 has
\* duration_minutes >= 1.
C9_DurationAtLeastOne ==
    (Returned /\ available_hours > 0) =>
        \A i \in DOMAIN response[1].sessions :
            response[1].sessions[i].duration_minutes >= 1

\* C10: the i-th session (0-based) has session_number i, across topics and
\* days, while the list is built and in the response.
C10_SessionNumbers ==
    /\ \A i \in DOMAIN sessions : sessions[i].session_number = i - 1
    /\ session_number = Len(sessions)
    /\ Returned =>
          \A i \in DOMAIN response[1].sessions :
              response[1].sessions[i].session_number = i - 1

\* A schedule whose sessions span two topics and two days.
C10_Witness ==
    /\ Returned
    /\ Len(response[1].sessions) >= 3
    /\ \E i, j \in DOMAIN response[1].sessions :
          /\ response[1].sessions[i].topic # response[1].sessions[j].topic
    /\ \E i, j \in DOMAIN response[1].sessions :
          /\ response[1].sessions[i].day # response[1].sessions[j].day

\* Number of questions listed by the first k sessions of a topic.
RECURSIVE ListedBefore(_, _)
ListedBefore(own, k) ==
    IF k = 0 THEN 0
    ELSE Len(own[k].questions_to_cover) + ListedBefore(own, k - 1)

\* The questions assigned to the k-th session of topic entry i: the session
\* lists follow the importance-sorted question list of the topic, chunk by
\* chunk.
AssignedTo(i, k) ==
    LET own == SessionsOf(response[1].sessions, topics[i].name)
        tq == SortQuestions(topics[i].v, importance_scores)
    IN  SubSeq(tq, ListedBefore(own, k - 1) + 1, ListedBefore(own, k))

\* C11: a session's importance_score is the mean (3 decimals) of the
\* importance of the questions assigned to it, and 0.5 when no question is
\* assigned to it.
C11_SessionImportance ==
    Returned =>
        \A i \in DOMAIN topics :
            LET own == SessionsOf(response[1].sessions, topics[i].name)
            IN  \A k \in DOMAIN own :
                    own[k].importance_score =
                        IF AssignedTo(i, k) = <<>> THEN 500
                        ELSE RoundHalfEven(
                                SumSeq(TopicScores(AssignedTo(i, k),
                                                   importance_scores)),
                                Len(AssignedTo(i, k)))

\* minutes_per_session of a topic: allocated_hours * 60 / num_sessions
MinutesOf(name) ==
    MinutesPerSession(Lookup(topic_hours, name), study_duration)

\* C17: every session's duration_minutes is minutes_per_session rounded to
\* the nearest integer, i.e. at most half a minute away from it.
C17_DurationRounded ==
    \A i \in DOMAIN sessions :
        LET mps == MinutesOf(sessions[i].topic)
        IN  2 * Abs(sessions[i].duration_minutes * mps.d - mps.n) <= mps.d

\* Position of a topic in the allocation map
MapIndex(name) == CHOOSE i \in DOMAIN topic_hours : topic_hours[i].name = name

\* Topic a is scheduled before topic b: more hours, or as many and earlier
\* in the allocation map.
ScheduledBefore(a, b) ==
    \/ Lookup(topic_hours, a) > Lookup(topic_hours, b)
    \/ /\ Lookup(topic_hours, a) = Lookup(topic_hours, b)
       /\ MapIndex(a) < MapIndex(b)

\* C18: the sessions of one topic are contiguous in the session list, and
\* the topics follow one another in descending order of allocated hours,
\* topics of equal hours in the order of the allocation map.
C18_TopicOrder ==
    \A i, j \in DOMAIN sessions :
        i < j =>
            /\ sessions[i].topic = sessions[j].topic
                  => \A k \in i..j : sessions[k].topic = sessions[i].topic
            /\ sessions[i].topic # sessions[j].topic
                  => ScheduledBefore(sessions[i].topic, sessions[j].topic)

\* Two topics of equal hours with several sessions each: "Networks", first
\* in the map, is scheduled first.
C18_Witness ==
    /\ Returned
    /\ Len(topic_hours) = 2
    /\ topic_hours[1].v = topic_hours[2].v
    /\ Len(SessionsOf(sessions, "Networks")) >= 2
    /\ Len(SessionsOf(sessions, "Algorithms")) >= 2
    /\ sessions[1].topic = "Networks"
    /\ sessions[Len(sessions)].topic = "Algorithms"

\* The second topic of the map has more hours and is scheduled first.
C18_WitnessReordered ==
    /\ Returned
    /\ Len(topic_hours) = 2
    /\ topic_hours[1].v < topic_hours[2].v
    /\ sessions[1].topic = topic_hours[2].name
    /\ sessions[Len(sessions)].topic = topic_hours[1].name

\* C19: for a session length study_duration > 0, a topic has
\* max(1, floor(allocated_hours * 60 / study_duration)) sessions, all of the
\* same duration; when the topic has at least study_duration minutes, every
\* session lasts at least study_duration and less than 2 * study_duration
\* minutes.
C19_SessionCount ==
    (Returned /\ study_duration > 0) =>
        \A i \in DOMAIN topic_hours :
            LET own == SessionsOf(response[1].sessions, topic_hours[i].name)
                total_minutes == Frac(topic_hours[i].v * 60, 100)
            IN  /\ Len(own) = Max(1, (topic_hours[i].v * 60)
                                        \div (100 * study_duration))
                /\ \A k \in DOMAIN own :
                      own[k].duration_minutes = own[1].duration_minutes
                /\ total_minutes.n >= study_duration * total_minutes.d
                      => \A k \in DOMAIN own :
                            /\ own[k].duration_minutes >= study_duration
                            /\ own[k].duration_minutes < 2 * study_duration

\* A topic whose minutes are more than twice study_duration and no multiple
\* of it: several sessions, each longer than study_duration.
C19_Witness ==
    /\ Returned /\ study_duration > 0
    /\ \E i \in DOMAIN topic_hours :
          LET own == SessionsOf(response[1].sessions, topic_hours[i].name)
          IN  /\ topic_hours[i].v * 60 > 2 * 100 * study_duration
              /\ (topic_hours[i].v * 60) % (100 * study_duration) # 0
              /\ Len(own) >= 2
              /\ own[1].duration_minutes > study_duration

\* Position of x in the list s
Pos(s, x) == CHOOSE i \in DOMAIN s : s[i] = x

\* The sort key of a question: importance_scores.get(q, 0.0)
SortKey(q) == Get(importance_scores, q, 0)

\* The orders in which the questions of a list can be studied
Orders(qs) ==
    {o \in [DOMAIN qs -> Range(qs)] : \A q \in Range(qs) : \E k \in DOMAIN o : o[k] = q}

\* In order o of the list qs, every question comes before the questions of
\* lower importance, and before the questions of equal importance that
\* follow it in qs.
ImportanceDescending(o, qs) ==
    \A a, b \in DOMAIN o :
        a < b => \/ SortKey(o[a]) > SortKey(o[b])
                 \/ /\ SortKey(o[a]) = SortKey(o[b])
                    /\ Pos(qs, o[a]) < Pos(qs, o[b])

\* C20: the questions of a topic are dealt to its sessions in
\* importance-descending order: the entries of the sessions, in session
\* order, are (the excerpts of) the topic's questions put in an order where
\* every question has an importance at least that of all later ones, and
\* questions of equal importance keep the order of the topic's list.
C20_QuestionsByImportance ==
    Returned =>
        \A i \in DOMAIN topics :
            \E o \in Orders(topics[i].v) :
                /\ ImportanceDescending(o, topics[i].v)
                /\ Covered(response[1].sessions, topics[i].name) = Excerpts(o)

\* A topic of three questions in two sessions: the first question of the
\* list has the lowest importance and is studied last, the other two are
\* equally important and keep their order.
C20_Witness ==
    /\ Returned
    /\ \E i \in DOMAIN topics :
          LET qs == topics[i].v
              own == SessionsOf(response[1].sessions, topics[i].name)
          IN  /\ Len(qs) = 3 /\ Len(own) = 2
              /\ SortKey(qs[1]) < SortKey(qs[2])
              /\ SortKey(qs[2]) = SortKey(qs[3])
              /\ Excerpt(qs[1]) # Excerpt(qs[2])
              /\ own[1].questions_to_cover = <<Excerpt(qs[2])>>
              /\ own[2].questions_to_cover = <<Excerpt(qs[3]), Excerpt(qs[1])>>

\* C27: along the session list the day numbers never decrease, two
\* consecutive sessions differ by at most one day, and every day number is
\* at least 1; this holds of the list at every step of its construction.
C27_DaysAdvanceByOne ==
    /\ \A i \in DOMAIN sessions : sessions[i].day >= 1
    /\ \A i \in 1..(Len(sessions) - 1) :
          /\ sessions[i + 1].day >= sessions[i].day
          /\ sessions[i + 1].day <= sessions[i].day + 1

\* A returned schedule of two topics or more where the second topic starts
\* on a later day than day 1, and two consecutive sessions share a day.
C27_Witness ==
    /\ Returned
    /\ \E i \in 1..(Len(sessions) - 1) :
          /\ sessions[i + 1].topic # sessions[i].topic
          /\ sessions[i + 1].day > 1
    /\ \E i \in 1..(Len(sessions) - 1) : sessions[i + 1].day = sessions[i].day

\* C28: the first session of every non-empty schedule is on day 1, for every
\* study_duration and allocation, also when it is longer than 240 minutes.
C28_FirstSessionOnDayOne ==
    (Returned /\ response[1].sessions # <<>>)
        => response[1].sessions[1].day = 1

\* C29: the key set of topic_distribution is the key set of the input topics
\* (an empty allocation for an empty map) and every input topic has a session
\* in the schedule, even when its allocation is 0 hours.
C29_EveryTopicRepresented ==
    Returned =>
        /\ Names(response[1].topic_distribution) = Names(topics)
        /\ Len(response[1].topic_distribution) = Len(topics)
        /\ \A i \in DOMAIN topics :
              SessionsOf(response[1].sessions, topics[i].name) # <<>>

\* A returned schedule with a topic that was allocated 0 hours and has a
\* session.
C29_Witness ==
    /\ Returned
    /\ \E i \in DOMAIN response[1].topic_distribution :
          /\ response[1].topic_distribution[i].v = 0
          /\ SessionsOf(response[1].sessions,
                        response[1].topic_distribution[i].name) # <<>>

---------------------------------------------------------------------------
(* Claims about calculate_importance_scores, checked under SpecScore *)

\* C12: every score computed by calculate_importance_scores lies in [0, 1],
\* for every grouping, topic assignment and year (years after 2025 included).
C12_ScoreInUnitInterval ==
    pc = "scored" =>
        \A t \in DOMAIN nlp_scores : nlp_scores[t] >= 0 /\ nlp_scores[t] <= 1000

---------------------------------------------------------------------------
(* Claims about POST /generate, checked under SpecApi *)

BadHours ==
    request.available_hours <= 0 \/ request.available_hours > max_available_hours

\* The topic set was filtered and nothing is left of it.
NoTopicLeft ==
    pc \notin {"request", "handler", "classify", "filter"} /\ topics = <<>>

\* The planner has not run and nothing was stored.
NothingPlanned ==
    /\ pc \in {"request", "handler", "classify", "filter", "responded"}
    /\ topic_importance = <<>> /\ topic_hours = <<>> /\ sessions = <<>>
    /\ response = <<>>
    /\ schedules = <<>>

\* C13: a request with available_hours <= 0 or > 1000, or whose topic set
\* is empty after the topics_to_include filter, is answered with an error
\* (422 or 400); the values are not replaced by valid ones, no schedule is
\* computed and none is stored.
C13_InvalidInputRejected ==
    /\ BadHours =>
          /\ NothingPlanned
          /\ pc \in {"request", "responded"}
          /\ pc = "responded" => http_status = 422
          /\ available_hours = 0
    /\ NoTopicLeft =>
          /\ NothingPlanned
          /\ pc = "responded" /\ http_status \in {400, 422}

\* A request whose filter names no topic of the classified questions,
\* answered 400.
C13_Witness ==
    /\ pc = "responded" /\ http_status = 400
    /\ ~BadHours
    /\ question_db # <<>>
    /\ request.topics_to_include # {}
    /\ topics = <<>>
    /\ schedules = <<>>

---------------------------------------------------------------------------
(* Claims about calls running together, checked under SpecConcurrent *)

\* The outer loop of _create_study_sessions from the k-th sorted topic on
RECURSIVE TopicsFrom(_, _, _, _, _)
TopicsFrom(k, sorted, tps, scores_sd, st) ==
    IF k > Len(sorted) THEN st
    ELSE TopicsFrom(k + 1, sorted, tps, scores_sd,
            TopicIteration(sorted[k], tps, scores_sd[1], scores_sd[2], st))

\* What generate_schedule returns for its arguments when it runs alone
ScheduleAlone(tps, scores_sd, hours) ==
    LET th == allocate_time_to_topics(
                  calculate_topic_importance(tps, scores_sd[1]), hours)
        ss == TopicsFrom(1, SortTopics(th), tps, scores_sd,
                  [sessions |-> <<>>, session_number |-> 0,
                   current_day |-> 1, daily_study_time |-> NoFrac]).sessions
    IN  [total_hours |-> TotalHours(ss),
         total_sessions |-> Len(ss),
         sessions |-> ss,
         topic_distribution |-> th]

\* generate_schedule alone raises: a division by study_duration = 0
RaisesAlone(tps, sd) == tps # <<>> /\ sd = 0

SameArguments(a, b) ==
    /\ a.topics = b.topics
    /\ a.importance_scores = b.importance_scores
    /\ a.available_hours = b.available_hours
    /\ a.study_duration = b.study_duration
    /\ a.break_duration = b.break_duration

\* C15: however the steps of two generate_schedule calls on the shared
\* study_planner are interleaved, each call returns exactly the schedule it
\* returns when it runs alone (and raises exactly when it raises alone).
C15_NoInterference ==
    \A c \in DOMAIN calls :
        LET fr == calls[c]
        IN  /\ fr.pc = "returned" =>
                  /\ ~RaisesAlone(fr.topics, fr.study_duration)
                  /\ fr.response =
                        <<ScheduleAlone(fr.topics,
                                        <<fr.importance_scores,
                                          fr.study_duration>>,
                                        fr.available_hours)>>
            /\ fr.pc = "raised" => RaisesAlone(fr.topics, fr.study_duration)

\* Two calls with different arguments have both returned, each a schedule
\* of several sessions.
C15_Witness ==
    \E a, b \in DOMAIN calls :
        /\ ~SameArguments(calls[a], calls[b])
        /\ calls[a].pc = "returned" /\ calls[b].pc = "returned"
        /\ Len(calls[a].response[1].sessions) >= 2
        /\ Len(calls[b].response[1].sessions) >= 2
        /\ calls[a].response # calls[b].response

---------------------------------------------------------------------------
(* Claims about _calculate_topic_importance, checked under SpecImportance *)

\* 0.7 * mean + 0.3 * min(1, count / 10) of a non-empty list, in thousandths,
\* as a fraction: a question without a score counts 0.5
WeightedImportance(qs) ==
    LET sum == SumSeq([k \in DOMAIN qs |-> Get(importance_scores, qs[k], 500)])
        capped == IF Len(qs) >= 10 THEN 1000 ELSE 100 * Len(qs)
    IN  [n |-> 7 * sum + 3 * capped * Len(qs), d |-> 10 * Len(qs)]

\* C22: _calculate_topic_importance gives 0.0 to a topic without questions
\* (and does not raise), and to any other topic
\* 0.7 * mean(question importances) + 0.3 * min(1, question_count / 10)
\* rounded to 3 decimals; the result is in [0, 1] when the question
\* importances are.
C22_TopicAggregation ==
    pc = "importance_done" =>
        /\ Len(topic_importance) = Len(topics)
        /\ \A i \in DOMAIN topics :
              /\ topic_importance[i].name = topics[i].name
              /\ topics[i].v = <<>> => topic_importance[i].v = 0
              /\ topics[i].v # <<>> =>
                    LET w == WeightedImportance(topics[i].v)
                    IN  2 * Abs(topic_importance[i].v * w.d - w.n) <= w.d
              /\ topic_importance[i].v >= 0 /\ topic_importance[i].v <= 1000

\* A topic of more than 10 questions, all of importance 1.0, next to a topic
\* without questions: the question weight is capped and the result is 1.0.
C22_Witness ==
    /\ pc = "importance_done"
    /\ Len(topics[1].v) > 10
    /\ \A k \in DOMAIN topics[1].v :
          Get(importance_scores, topics[1].v[k], 500) = 1000
    /\ topic_importance[1].v = 1000
    /\ topics[2].v = <<>> /\ topic_importance[2].v = 0

---------------------------------------------------------------------------
(* Claims about break_duration, checked under SpecBreak *)

SameButBreak(a, b) ==
    /\ a.topics = b.topics
    /\ a.importance_scores = b.importance_scores
    /\ a.available_hours = b.available_hours
    /\ a.study_duration = b.study_duration

\* C21: two generate_schedule calls that differ in break_duration only end
\* alike: both raise, or both return the same sessions (with the same day
\* numbers) and the same totals.
C21_BreakWithoutEffect ==
    \A a, b \in DOMAIN calls :
        SameButBreak(calls[a], calls[b]) =>
            /\ (calls[a].pc = "returned" /\ calls[b].pc = "returned")
                  => calls[a].response = calls[b].response
            /\ ~(calls[a].pc = "returned" /\ calls[b].pc = "raised")

\* Two calls with breaks of 0 and 30 minutes have both returned a schedule
\* of several sessions on several days.
C21_Witness ==
    \E a, b \in DOMAIN calls :
        /\ SameButBreak(calls[a], calls[b])
        /\ calls[a].break_duration = 0 /\ calls[b].break_duration = 30
        /\ calls[a].pc = "returned" /\ calls[b].pc = "returned"
        /\ \E i, j \in DOMAIN calls[a].response[1].sessions :
              calls[a].response[1].sessions[i].day
                  # calls[a].response[1].sessions[j].day

---------------------------------------------------------------------------
(* Claims about classify_questions, checked under SpecClassify *)

\* The topics whose list holds question q
TopicsHolding(q) == {i \in DOMAIN topics : q \in Range(topics[i].v)}

\* C23: for every non-empty question list, each input question is in the
\* list of exactly one returned topic, on the clustering path (also when two
\* clusters receive the same extracted topic name), on the keyword fallback
\* path and on the exception path.
C23_ClassifyPartitions ==
    (pc = "classified" /\ questions # <<>>)
        => \A q \in Range(questions) : Cardinality(TopicsHolding(q)) = 1

---------------------------------------------------------------------------
(* Claims about the timer service, checked under SpecTimer *)

HasTimer(u) == u \in DOMAIN active_timers

\* The step serves a call of method op for user u
Served(op, u) == timer_call' = Call(op, u)

\* The study sessions of u's timer that have run to zero since its creation
\* or reset, when its study phase is at 0: the current one and those counted
\* by current_session.
CompletedSessions(u) == active_timers[u].current_session + 1

\* start_timer is served for a timer whose study phase is at 0
StudyEnds(u) ==
    /\ HasTimer(u)
    /\ Served("start", u)
    /\ ~active_timers[u].is_break
    /\ active_timers[u].time_remaining = 0
    /\ timer_configs[u].sessions_until_long_break > 0

\* C24: a long break (long_break_duration) is started only when
\* sessions_until_long_break study sessions have run to zero since
\* creation/reset or since the previous long break, that is after the
\* sessions number N, 2N, 3N, ... of the timer; every other completed study
\* session is followed by a short break (break_duration).
C24_LongBreakRule ==
    [][\A u \in Users :
          StudyEnds(u) =>
              /\ active_timers'[u].is_break
              /\ active_timers'[u].time_remaining =
                    60 * (IF CompletedSessions(u)
                               % timer_configs[u].sessions_until_long_break = 0
                          THEN timer_configs[u].long_break_duration
                          ELSE timer_configs[u].break_duration)]_vars

\* C25: start_timer on a timer with time_remaining > 0 only sets is_running;
\* at time_remaining = 0 it goes from study to break and from break to
\* study; current_session increases by exactly 1 on each break -> study
\* transition and is changed by no other call but create and reset, which
\* set it to 0.
C25_StartOrResume ==
    [][\A u \in Users :
          /\ (HasTimer(u) /\ Served("start", u)
                 /\ active_timers[u].time_remaining > 0)
                => /\ active_timers'[u].is_running
                   /\ active_timers'[u].is_break = active_timers[u].is_break
                   /\ active_timers'[u].current_session
                         = active_timers[u].current_session
                   /\ active_timers'[u].time_remaining
                         = active_timers[u].time_remaining
          /\ (HasTimer(u) /\ Served("start", u)
                 /\ active_timers[u].time_remaining = 0)
                => /\ active_timers'[u].is_break = ~active_timers[u].is_break
                   /\ active_timers'[u].current_session
                         = IF active_timers[u].is_break
                           THEN active_timers[u].current_session + 1
                           ELSE active_timers[u].current_session
          /\ (Served("create", u) \/ (HasTimer(u) /\ Served("reset", u))
                 \/ (~HasTimer(u) /\ Served("start", u)))
                => active_timers'[u].current_session = 0
          /\ (HasTimer(u) /\ ~Served("start", u) /\ ~Served("create", u)
                 /\ ~Served("reset", u))
                => active_timers'[u].current_session
                      = active_timers[u].current_session]_vars

\* A start_timer call has taken a timer from a finished break to its second
\* study session or a later one.
C25_Witness ==
    \E u \in Users :
        /\ HasTimer(u)
        /\ timer_call = Call("start", u)
        /\ ~active_timers[u].is_break
        /\ active_timers[u].current_session >= 1
        /\ active_timers[u].is_running
        /\ active_timers[u].time_remaining
              = 60 * timer_configs[u].study_duration
        /\ timer_configs[u].study_duration > 0

\* C26: pause_timer stops the timer and changes nothing else; update_timer
\* on a timer that is not running changes nothing; only start_timer sets a
\* timer running again; pause_timer, reset_timer and update_timer for a user
\* without timer create no timer and change no state of the service.
C26_PauseFreezes ==
    [][\A u \in Users :
          /\ (HasTimer(u) /\ Served("pause", u))
                => active_timers'[u]
                      = [active_timers[u] EXCEPT !.is_running = FALSE]
          /\ (HasTimer(u) /\ Served("update", u)
                 /\ ~active_timers[u].is_running)
                => active_timers'[u] = active_timers[u]
          /\ (HasTimer(u) /\ ~active_timers[u].is_running
                 /\ active_timers'[u].is_running)
                => Served("start", u)
          /\ (~HasTimer(u) /\ (Served("pause", u) \/ Served("reset", u)
                                  \/ Served("update", u)))
                => /\ active_timers' = active_timers
                   /\ timer_configs' = timer_configs]_vars

\* update_timer has been served for a timer paused in the middle of its
\* first study session.
C26_Witness ==
    \E u \in Users :
        /\ HasTimer(u)
        /\ timer_call = Call("update", u)
        /\ ~active_timers[u].is_running
        /\ ~active_timers[u].is_break
        /\ active_timers[u].time_remaining > 0
        /\ active_timers[u].time_remaining
              < 60 * timer_configs[u].study_duration

\* The configured duration (minutes) of the phase a timer is in: the study
\* duration, or the duration of the break start_timer chose at line 94.
PhaseDuration(state, config) ==
    IF ~state.is_break THEN config.study_duration
    ELSE IF config.sessions_until_long_break # 0 /\ LongBreakDue(state, config)
    THEN config.long_break_duration
    ELSE config.break_duration

\* A call for a user leaves the timer and the configuration of every other
\* user as they are.
OthersUntouched ==
    \A v \in Users :
        v # timer_call'.user_id
            => /\ HasTimer(v) <=> v \in DOMAIN active_timers'
               /\ HasTimer(v) => /\ active_timers'[v] = active_timers[v]
                                 /\ timer_configs'[v] = timer_configs[v]

\* C30: with elapsed_seconds >= 0 and configured durations >= 0, every
\* timer's time_remaining is >= 0 and at most 60 * the configured duration
\* of its current phase in every reachable state, and a call for one user
\* never changes the timer state or configuration of another user.
C30_TimerBound ==
    /\ [](\A u \in DOMAIN active_timers :
             /\ active_timers[u].time_remaining >= 0
             /\ active_timers[u].time_remaining
                   <= 60 * PhaseDuration(active_timers[u], timer_configs[u]))
    /\ [][OthersUntouched]_vars

\* A call for u2 has been served while the timer of u1 runs in the middle
\* of a break, and the timer of u2 has been counted down to 0.
C30_Witness ==
    /\ HasTimer("u1") /\ HasTimer("u2")
    /\ timer_call.user_id = "u2"
    /\ active_timers["u1"].is_running
    /\ active_timers["u1"].is_break
    /\ active_timers["u1"].time_remaining > 0
    /\ active_timers["u1"].time_remaining
          < 60 * PhaseDuration(active_timers["u1"], timer_configs["u1"])
    /\ active_timers["u2"].is_running
    /\ active_timers["u2"].time_remaining = 0
    /\ timer_configs["u2"].study_duration > 0

---------------------------------------------------------------------------
(* Claims about predict_important_questions, checked under SpecPredict *)

Score(q) == Get(importance_scores, q, 0)

\* a ranks before b: higher importance, or equal importance and earlier input
RanksBefore(a, b) ==
    \/ Score(a) > Score(b)
    \/ Score(a) = Score(b) /\ Pos(questions, a) < Pos(questions, b)

\* C7: the result is ordered by importance descending with ties in input
\* order, holds the best min(top_n, number of questions) questions, and has
\* that length also when fewer than top_n questions exist.
C7_TopQuestions ==
    pc = "predicted" =>
        /\ Len(predicted) = Min(top_n, Len(questions))
        /\ \A i \in DOMAIN predicted :
              /\ predicted[i].question \in Range(questions)
              /\ predicted[i].importance_score = Score(predicted[i].question)
        /\ \A i, j \in DOMAIN predicted :
              i < j => RanksBefore(predicted[i].question, predicted[j].question)
        /\ \A i \in DOMAIN predicted :
              \A q \in Range(questions)
                        \ {predicted[k].question : k \in DOMAIN predicted} :
                  RanksBefore(predicted[i].question, q)

\* Three questions, the last two tied above the first, cut to the top two.
C7_Witness ==
    /\ pc = "predicted"
    /\ Len(questions) = 3 /\ top_n = 2
    /\ Score(questions[2]) = Score(questions[3])
    /\ Score(questions[2]) > Score(questions[1])
    /\ Len(predicted) = 2
    /\ predicted[1].question = questions[2]
    /\ predicted[2].question = questions[3]

====
